---- MODULE Spec2Model ----
(***************************************************************************)
(* Model of Code/BackupManager.py: the backup cycle (create_backup and     *)
(* cleanup_old_backups) and the three places that call it: main's initial  *)
(* backup, the scheduler thread's loop and the F5 hotkey handler.          *)
(*                                                                         *)
(* File names are sequences of tokens, so that the prefix/suffix filter of *)
(* cleanup_old_backups is computed on names the way the code computes it.  *)
(* The clock counts seconds, the resolution of the archive name's stamp.   *)
(***************************************************************************)
EXTENDS Integers, Sequences, FiniteSets, TLC

\* ---------------------------------------------------------------- bounds
MaxClock == 1       \* the clock runs from second 0 to MaxClock
MaxSched == 1       \* scheduled cycles the scheduler loop performs
MaxManual == 1      \* F5 presses delivered to the hotkey handler
MaxKeep == 2        \* max_backups is drawn from 0..MaxKeep
MaxSrcFiles == 2    \* files the save folder may hold
MaxPre == 3         \* snapshots of the label already in the backup folder
MaxFaults == 1      \* system calls that raise for an outside reason, in all

\* ---------------------------------------------------------------- names
Threads == {"main", "sched", "hotkey"}

GAME_NAME == <<"TLD">>                       \* the configured label
OtherLabel == <<"TLD", "_backup_", "X">>     \* the label "TLD_backup_X"

StartsWith(s, p) == Len(s) >= Len(p) /\ SubSeq(s, 1, Len(p)) = p
EndsWith(s, p) == Len(s) >= Len(p) /\ SubSeq(s, Len(s) - Len(p) + 1, Len(s)) = p

\* datetime.now().strftime("%Y%m%d_%H%M%S"): the second, as text
FormatStamp(second) == ToString(second)

\* f"{game_name}_backup_{timestamp}.zip"
BackupName(game_name, timestamp) == game_name \o <<"_backup_", timestamp, ".zip">>

\* the filter of cleanup_old_backups
MatchesFilter(file, game_name) ==
    /\ StartsWith(file, game_name \o <<"_backup_">>)
    /\ EndsWith(file, <<".zip">>)

\* stamps a snapshot name can carry in this model
PreStamp(k) == "p" \o ToString(k)
Stamps == {PreStamp(k) : k \in 1..MaxPre} \cup {FormatStamp(t) : t \in 0..MaxClock}

\* a name of the form <label>_backup_<YYYYMMDD_HHMMSS>.zip
IsSnapshotOf(file, label) == \E s \in Stamps : file = BackupName(label, s)

\* files the backup folder may hold before the program starts
PreSnapshot(k) == BackupName(GAME_NAME, PreStamp(k))
OtherSnapshot == BackupName(OtherLabel, PreStamp(1))
NotesTxt == <<"notes", ".txt">>
Foreign == {OtherSnapshot, NotesTxt}
ForeignCtime == 0 - (MaxPre + 1)

\* a file: its creation time, the cycle that wrote its content, the number
\* of entries the archive holds and the compression level they were written
\* with
FileRec(ctime, by, n, level) ==
    [ctime |-> ctime, by |-> by, n |-> n, level |-> level]

\* line 174: compress_level = min(max(compress_level, 0), 9)
Clamp(compress_level) ==
    IF compress_level < 0 THEN 0 ELSE IF compress_level > 9 THEN 9 ELSE compress_level

\* zlib's default level, which zipfile uses when no compresslevel is given
ZLIB_DEFAULT == 6

\* line 176, zipfile.ZipFile(backup_path, 'w', compression): the third
\* argument is the method, the clamped level is not passed
LevelUsed(compress_level) == ZLIB_DEFAULT
Earlier == <<"earlier", 0>>      \* written by an earlier run of the program

\* npre snapshots of the label, PreSnapshot(k) created at second -k
PreListing(npre, foreign) ==
    [f \in {PreSnapshot(k) : k \in 1..npre} \cup foreign |->
        IF f \in foreign THEN FileRec(ForeignCtime, Earlier, 1, ZLIB_DEFAULT)
        ELSE FileRec(0 - (CHOOSE k \in 1..npre : f = PreSnapshot(k)), Earlier, 1,
                     ZLIB_DEFAULT)]

\* ---------------------------------------------------------------- state
VARIABLES
    pc,          \* where each thread is
    now,         \* the clock, in seconds
    srcExists,   \* os.path.exists(source_dir)
    srcCount,    \* number of files under source_dir
    destExists,  \* os.path.exists(backup_dir)
    dest,        \* the backup folder: file name -> FileRec
    max_backups, \* MAX_BACKUPS of the settings
    compress_level, \* COMPRESS_LEVEL of the settings
    nsched,      \* scheduled calls of create_backup so far
    nmanual,     \* F5 presses handled so far
    sleepSince,  \* the second in which the scheduler's time.sleep began
    faults,      \* system calls that have raised for an outside reason
    killed,      \* threads whose cycle the exit of the process cut short
    inHandler,   \* the F5 handler has been entered and has not returned
    lastDone,    \* the second in which the last cycle to complete completed
    preCount,    \* snapshots of the label when the cycle began that has run
                 \* alone since; Overlapped when cycles have run together
    files_to_backup, \* per thread: len(files_to_backup)
    backup_path, \* per thread: the archive name, <<>> when not in use
    listed,      \* per thread: what os.listdir returned
    ret          \* per thread: line of the return statement taken, 0 if none

locals == <<files_to_backup, backup_path, listed, ret>>
fs == <<srcExists, srcCount, destExists, dest>>
vars == <<pc, now, fs, max_backups, compress_level, nsched, nmanual, sleepSince,
          faults, killed, inHandler, lastDone, preCount, locals>>

NotEnumerated == 0 - 1   \* files_to_backup before line 158 binds it
Overlapped == 0 - 1      \* preCount when two cycles have run together
NoCycleYet == 0 - 1      \* lastDone before any cycle has completed

WorkPcs == {"cb_check", "cb_write", "cl_stat"}
Running(t) == pc[t] \in WorkPcs
RunningSet == {t \in Threads : Running(t)}
exited == \A t \in Threads : pc[t] = "exited"

\* the cycle thread t executes: the thread and the number of its call
CycleId(t) ==
    <<t, IF t = "sched" THEN nsched ELSE IF t = "hotkey" THEN nmanual ELSE 1>>

SnapshotsOf(files, label) == {f \in files : IsSnapshotOf(f, label)}

\* values of compress_level in Settings.ini: below, above and inside 0..9
Levels == <<0 - 1, 10, 5, 0, 9>>

\* the settings the program is started with. max_backups and compress_level
\* never meet in the code, so one level is drawn with each max_backups
Settings ==
    {[max_backups |-> k, compress_level |-> Levels[(k % Len(Levels)) + 1]] :
        k \in 0..MaxKeep}

NoLocals(f) == [t \in Threads |-> f]

InitLocals ==
    /\ files_to_backup = NoLocals(NotEnumerated)
    /\ backup_path = NoLocals(<<>>)
    /\ listed = NoLocals({})
    /\ ret = NoLocals(0)

Init ==
    /\ pc = [t \in Threads |->
               IF t = "main" THEN "m_start" ELSE IF t = "sched" THEN "s_off" ELSE "h_idle"]
    /\ now = 0
    /\ srcExists \in BOOLEAN
    /\ srcCount \in 0..MaxSrcFiles
    /\ (~srcExists => srcCount = 0)
    /\ \E s \in Settings :
         max_backups = s.max_backups /\ compress_level = s.compress_level
    /\ destExists \in BOOLEAN
    /\ dest \in {PreListing(0, {}), PreListing(MaxPre, Foreign)}
    /\ (~destExists => DOMAIN dest = {})
    /\ nsched = 0 /\ nmanual = 0
    /\ sleepSince = 0
    /\ faults = 0
    /\ killed = {}
    /\ inHandler = FALSE
    /\ lastDone = NoCycleYet
    /\ preCount = 0
    /\ InitLocals

\* ------------------------------------------------------------- helpers
Min(a, b) == IF a <= b THEN a ELSE b
Max(a, b) == IF a >= b THEN a ELSE b

\* the function d without the files F
Without(d, F) == [g \in DOMAIN d \ F |-> d[g]]
\* the function d with the file f bound to r
With(d, f, r) == [g \in DOMAIN d \cup {f} |-> IF g = f THEN r ELSE d[g]]

\* The lists that lines 211-218 can leave in `backups` for the listed files S
\* with creation times c: os.listdir returns S in any order and list.sort is
\* stable, so the result is any arrangement of S in ascending creation time.
RECURSIVE SortedBackups(_, _)
SortedBackups(S, c) ==
    IF S = {} THEN {<<>>}
    ELSE LET oldest == {f \in S : \A g \in S : c[f] <= c[g]}
         IN UNION {{<<<<f, c[f]>>>> \o rest : rest \in SortedBackups(S \ {f}, c)} :
                   f \in oldest}

\* whether a system call succeeds: it may raise for an outside reason (no
\* permission, disk full, file locked) while faults remain to be injected
Outcomes == IF faults < MaxFaults THEN BOOLEAN ELSE {TRUE}

\* line 203 without the handler of line 201: the exception leaves
\* create_backup and ends the thread
ReturnAtUncaught(t, line) ==
    /\ pc' = [pc EXCEPT ![t] = IF line = 203 THEN "exited" ELSE "cb_ret"]
    /\ ret' = [ret EXCEPT ![t] = line]
    /\ files_to_backup' = [files_to_backup EXCEPT ![t] = NotEnumerated]
    /\ backup_path' = [backup_path EXCEPT ![t] = <<>>]
    /\ listed' = [listed EXCEPT ![t] = {}]
    /\ lastDone' = now

\* a return statement of create_backup, by its line; the locals go out of
\* scope. An exception raised inside create_backup is caught at line 201 and
\* becomes the return of line 203
ReturnAt(t, line) ==
    /\ pc' = [pc EXCEPT ![t] = "cb_ret"]
    /\ ret' = [ret EXCEPT ![t] = line]
    /\ files_to_backup' = [files_to_backup EXCEPT ![t] = NotEnumerated]
    /\ backup_path' = [backup_path EXCEPT ![t] = <<>>]
    /\ listed' = [listed EXCEPT ![t] = {}]
    /\ lastDone' = now

\* a call of create_backup by thread t
BeginCycle(t) ==
    /\ preCount' = IF RunningSet = {}
                   THEN Cardinality(SnapshotsOf(DOMAIN dest, GAME_NAME))
                   ELSE Overlapped
    /\ pc' = [pc EXCEPT ![t] = "cb_check"]
    /\ UNCHANGED <<files_to_backup, backup_path, listed, ret>>

\* ------------------------------------------------------- create_backup
\* line 147, `if not os.path.exists(source_dir)`
SourceMissingNever == FALSE
SourceMissing == ~srcExists

\* line 163, `if not files_to_backup`, on the number of enumerated files
NothingToBackupNever(n) == FALSE
NothingToBackup(n) == n = 0

\* lines 147-176: the source must exist, the backup folder is created when
\* missing, the files are enumerated (os.walk) and there must be one; the
\* name is computed and ZipFile(backup_path, 'w') creates the file, or
\* truncates the file of that name, or raises
CbCheck(t) ==
    /\ pc[t] = "cb_check"
    /\ IF SourceMissing
       THEN ReturnAt(t, 150) /\ UNCHANGED <<destExists, dest, faults>>
       ELSE \E made \in Outcomes, opened \in Outcomes :
              IF ~destExists /\ ~made
              THEN /\ ReturnAt(t, 203)
                   /\ faults' = faults + 1
                   /\ UNCHANGED <<destExists, dest>>
              ELSE /\ destExists' = TRUE
                   /\ IF NothingToBackup(srcCount)
                      THEN ReturnAt(t, 165) /\ UNCHANGED <<dest, faults>>
                      ELSE IF ~opened
                      THEN /\ ReturnAt(t, 203)
                           /\ faults' = faults + 1
                           /\ UNCHANGED dest
                      ELSE LET path == BackupName(GAME_NAME, FormatStamp(now))
                           IN /\ files_to_backup' = [files_to_backup EXCEPT ![t] = srcCount]
                              /\ backup_path' = [backup_path EXCEPT ![t] = path]
                              /\ \E c \in (IF path \in DOMAIN dest
                                           THEN {dest[path].ctime, now}
                                           ELSE {now}) :
                                    dest' = With(dest, path,
                                                 FileRec(c, CycleId(t), 0,
                                                         LevelUsed(Clamp(compress_level))))
                              /\ pc' = [pc EXCEPT ![t] = "cb_write"]
                              /\ UNCHANGED <<faults, listed, ret, lastDone>>
    /\ UNCHANGED <<sleepSince, now, srcExists, srcCount, max_backups,
                   compress_level, nsched, nmanual, killed, inHandler,
                   preCount>>

\* lines 179-184, the loop over files_to_backup: ok[i] tells whether
\* zipf.write of the i-th file succeeds; a write that raises is caught and
\* the loop goes on with the next file. The number of files added
RECURSIVE WriteLoopAborting(_)
WriteLoopAborting(ok) ==
    IF ok = <<>> \/ ~Head(ok) THEN 0 ELSE 1 + WriteLoopAborting(Tail(ok))
RECURSIVE WriteLoop(_)
WriteLoop(ok) ==
    IF ok = <<>> THEN 0 ELSE (IF Head(ok) THEN 1 ELSE 0) + WriteLoop(Tail(ok))

\* the files among the n enumerated that are still in the save folder
Readable(n) == IF srcExists THEN Min(n, srcCount) ELSE 0

\* lines 176-197 and 209-212: each zipf.write adds its file, or raises
\* because the file is gone or for an outside reason (file `bad`), and is
\* skipped; leaving the with block closes the archive, which may raise; the
\* archive must exist; cleanup_old_backups is called and lists the backup
\* folder
CbWrite(t) ==
    /\ pc[t] = "cb_write"
    /\ LET path == backup_path[t]
           n == files_to_backup[t]
       IN \E bad \in (IF faults < MaxFaults THEN 0..Readable(n) ELSE {0}) :
          LET ok == [i \in 1..n |-> i <= Readable(n) /\ i # bad]
              raised == faults + (IF bad = 0 THEN 0 ELSE 1)
          IN \E closed \in (IF raised < MaxFaults THEN BOOLEAN ELSE {TRUE}) :
            /\ dest' = IF path \in DOMAIN dest
                       THEN With(dest, path,
                                 FileRec(dest[path].ctime, CycleId(t), WriteLoop(ok),
                                         dest[path].level))
                       ELSE dest
            /\ IF ~closed
               THEN ReturnAt(t, 203) /\ faults' = raised + 1
               ELSE IF path \notin DOMAIN dest
               THEN ReturnAt(t, 194) /\ faults' = raised
               ELSE /\ listed' = [listed EXCEPT ![t] = DOMAIN dest]
                    /\ backup_path' = [backup_path EXCEPT ![t] = <<>>]
                    /\ pc' = [pc EXCEPT ![t] = "cl_stat"]
                    /\ faults' = raised
                    /\ UNCHANGED <<files_to_backup, ret, lastDone>>
    /\ UNCHANGED <<sleepSince, now, srcExists, srcCount, destExists,
                   max_backups, compress_level, nsched, nmanual, killed,
                   inHandler, preCount>>

\* ------------------------------------------------- cleanup_old_backups
\* lines 220-229: the loop pops the head of backups while the list is longer
\* than max_backups: the entries it pops
OldBackups(sorted, keep) == SubSeq(sorted, 1, Max(0, Len(sorted) - keep))

\* lines 223-229, the body of that loop: os.remove of each popped entry; a
\* remove that raises (the file is locked) is caught and the loop goes on.
\* The files removed
RemoveLoopAborting(old_backups, locked) ==
    {old_backups[i][1] : i \in {j \in 1..Len(old_backups) :
                                   \A h \in 1..j : old_backups[h][1] \notin locked}}
RemoveLoop(old_backups, locked) ==
    {old_backups[i][1] : i \in 1..Len(old_backups)} \ locked

\* lines 213-229 and 199: filter, os.path.getctime of each match (getctime of
\* a file that is gone raises, line 234 swallows it and line 199 returns),
\* sort, and os.remove of each popped entry; a remove that raises (the file
\* is locked) is skipped
Cleanup(t) ==
    /\ pc[t] = "cl_stat"
    /\ LET matching == {f \in listed[t] : MatchesFilter(f, GAME_NAME)}
       IN IF \E f \in matching : f \notin DOMAIN dest
          THEN UNCHANGED <<dest, faults>>
          ELSE \E sorted \in SortedBackups(matching, [f \in matching |-> dest[f].ctime]) :
                 LET old_backups == OldBackups(sorted, max_backups)
                     names == {old_backups[i][1] : i \in 1..Len(old_backups)}
                 IN \E locked \in SUBSET names :
                      /\ faults + Cardinality(locked) <= MaxFaults
                      /\ faults' = faults + Cardinality(locked)
                      /\ dest' = Without(dest, RemoveLoop(old_backups, locked))
    /\ ReturnAt(t, 199)
    /\ UNCHANGED <<sleepSince, now, srcExists, srcCount, destExists,
                   max_backups, compress_level, nsched, nmanual, killed,
                   inHandler, preCount>>

\* create_backup has returned to its caller: main enters its loop (line
\* 386), the scheduler loops to its sleep (line 258), the F5 handler prints
\* and returns (lines 244-245)
Resume(t) ==
    IF t = "main" THEN "m_loop" ELSE IF t = "sched" THEN "s_sleep" ELSE "h_idle"

CbReturn(t) ==
    /\ pc[t] = "cb_ret"
    /\ pc' = [pc EXCEPT ![t] = Resume(t)]
    /\ inHandler' = IF t = "hotkey" THEN FALSE ELSE inHandler
    /\ sleepSince' = IF t = "sched" THEN now ELSE sleepSince
    /\ ret' = [ret EXCEPT ![t] = 0]
    /\ preCount' = IF RunningSet = {} THEN 0 ELSE preCount
    /\ UNCHANGED <<now, fs, max_backups, compress_level, nsched, nmanual,
                   faults, killed, lastDone, files_to_backup, backup_path,
                   listed>>

\* --------------------------------------------------------- the callers
\* main, lines 371-377: the scheduler thread is started
MainStartScheduler ==
    /\ pc["main"] = "m_start"
    /\ pc' = [pc EXCEPT !["main"] = "m_call", !["sched"] = "s_sleep"]
    /\ sleepSince' = now
    /\ UNCHANGED <<now, fs, max_backups, compress_level, nsched, nmanual,
                   faults, killed, inHandler, lastDone, preCount, locals>>

\* main, line 383: the initial backup
MainInitialBackup ==
    /\ pc["main"] = "m_call"
    /\ BeginCycle("main")
    /\ UNCHANGED <<sleepSince, now, fs, max_backups, compress_level, nsched,
                   nmanual, faults, killed, inHandler, lastDone>>

\* auto_backup_scheduler, lines 252-264: time.sleep returns, one interval
\* (of a minute or more) or longer after it began, and the backup is called
SchedulerBackup ==
    /\ pc["sched"] = "s_sleep"
    /\ nsched < MaxSched
    /\ now > sleepSince
    /\ nsched' = nsched + 1
    /\ BeginCycle("sched")
    /\ UNCHANGED <<sleepSince, now, fs, max_backups, compress_level, nmanual,
                   faults, killed, inHandler, lastDone>>

\* manual_backup_handler.handler, lines 239-243: F5 runs the handler, which
\* calls the backup
ManualBackup ==
    /\ pc["hotkey"] = "h_idle"
    /\ nmanual < MaxManual
    /\ nmanual' = nmanual + 1
    /\ inHandler' = TRUE
    /\ BeginCycle("hotkey")
    /\ UNCHANGED <<sleepSince, now, fs, max_backups, compress_level, nsched,
                   faults, killed, lastDone>>

\* main, lines 342 and 389-391: KeyboardInterrupt reaches the main thread
\* inside its try block, and it calls sys.exit; the other threads are daemons
\* and end with the process
Shutdown ==
    /\ ~exited
    /\ pc' = [t \in Threads |-> "exited"]
    /\ killed' = RunningSet
    /\ inHandler' = FALSE
    /\ files_to_backup' = NoLocals(NotEnumerated)
    /\ backup_path' = NoLocals(<<>>)
    /\ listed' = NoLocals({})
    /\ ret' = NoLocals(0)
    /\ preCount' = 0
    /\ lastDone' = NoCycleYet
    /\ UNCHANGED <<sleepSince, now, fs, max_backups, compress_level, nsched,
                   nmanual, faults>>

\* ----------------------------------------------------- the environment
\* the clock advances
Tick ==
    /\ ~exited /\ now < MaxClock
    /\ now' = now + 1
    /\ UNCHANGED <<sleepSince, pc, fs, max_backups, compress_level, nsched,
                   nmanual, faults, killed, inHandler, lastDone, preCount,
                   locals>>

\* the game (or the user) removes files of the save folder, or the folder
SourceChanges ==
    /\ ~exited
    /\ \E e \in BOOLEAN, n \in 0..srcCount :
         /\ (~e => n = 0)
         /\ (e => srcExists)
         /\ <<e, n>> # <<srcExists, srcCount>>
         /\ srcExists' = e
         /\ srcCount' = n
    /\ UNCHANGED <<sleepSince, pc, now, destExists, dest, max_backups,
                   compress_level, nsched, nmanual, faults, killed, inHandler,
                   lastDone, preCount, locals>>

Next ==
    \/ MainStartScheduler
    \/ MainInitialBackup
    \/ SchedulerBackup
    \/ ManualBackup
    \/ Shutdown
    \/ Tick
    \/ SourceChanges
    \/ \E t \in Threads : CbCheck(t)
    \/ \E t \in Threads : CbWrite(t)
    \/ \E t \in Threads : Cleanup(t)
    \/ \E t \in Threads : CbReturn(t)

Spec == Init /\ [][Next]_vars

\* ------------------------------------------------------------ properties
\* a step of thread t that ends its cycle (a return statement is reached)
Returns(t) == Running(t) /\ pc'[t] = "cb_ret"

\* C1: in every reachable state at most one backup cycle is executing,
\* whatever the interleaving of the initial, scheduled and manual triggers.
C1_AtMostOneCycle == Cardinality(RunningSet) <= 1

\* C2: a trigger that arrives while a cycle is running never starts a cycle:
\* every step that starts a cycle is taken when no cycle is running.
C2_BusyTriggerDropped ==
    [][\A t \in Threads :
          (~Running(t) /\ pc'[t] = "cb_check") => RunningSet = {}]_vars

\* C3: the manual source never waits for a cycle: the F5 handler has returned
\* whenever the cycle it started is running.
C3_ManualSubmitReturnsAtOnce == Running("hotkey") => ~inHandler

\* C4: when a cycle completes, with success or with failure, the system is
\* idle again: no cycle is running.
C4_IdleOnCompletion ==
    [][\A t \in Threads : Returns(t) => \A u \in Threads : pc'[u] \notin WorkPcs]_vars

\* C5: on a listing with N snapshots of the label, a cleanup in which no
\* remove fails deletes exactly max(0, N - max_backups) files, none of them
\* newer than a snapshot of the label that it keeps.
C5_SelectsOldestExcess ==
    [][\A t \in Threads :
          (pc[t] = "cl_stat" /\ Returns(t) /\ preCount # Overlapped /\ faults' = faults)
          => LET N == Cardinality(SnapshotsOf(listed[t], GAME_NAME))
                 deleted == DOMAIN dest \ DOMAIN dest'
                 kept == SnapshotsOf(listed[t], GAME_NAME) \ deleted
             IN /\ Cardinality(deleted) = Max(0, N - max_backups)
                /\ \A d \in deleted, k \in kept : dest[d].ctime <= dest[k].ctime]_vars

\* C6: no step removes from the backup folder a file that is not a snapshot
\* of the current label.
C6_OnlyOwnSnapshotsDeleted ==
    [][\A f \in DOMAIN dest :
          ~IsSnapshotOf(f, GAME_NAME) => f \in DOMAIN dest']_vars

\* C7: a successful cycle that ran alone, begun with N snapshots of the label
\* in the backup folder, no system call having failed, ends with exactly
\* min(N + 1, max_backups) of them, and every snapshot it removed is no newer
\* than those it left.
C7_RetentionCountsNewArchive ==
    [][\A t \in Threads :
          (pc[t] = "cl_stat" /\ Returns(t) /\ preCount # Overlapped /\ faults' = 0)
          => LET after == SnapshotsOf(DOMAIN dest', GAME_NAME)
                 gone == SnapshotsOf(DOMAIN dest, GAME_NAME) \ after
             IN /\ Cardinality(after) = Min(preCount + 1, max_backups)
                /\ \A g \in gone, k \in after : dest[g].ctime <= dest[k].ctime]_vars

\* C8: an archive in the backup folder is never overwritten: while a file
\* stays in the folder, the cycle that wrote its content stays the same.
C8_NoSilentOverwrite ==
    [][\A f \in DOMAIN dest \cap DOMAIN dest' : dest'[f].by = dest[f].by]_vars

\* C9: a cycle that returns failure leaves no file of its own in the backup
\* folder, and a cycle that finds the source gone when it writes the archive,
\* so that it can add no file, returns failure.
C9_FailedCycleLeavesNoArchive ==
    [][\A t \in Threads :
          /\ (Returns(t) /\ ret'[t] # 199)
                => \A f \in DOMAIN dest' : dest'[f].by # CycleId(t)
          /\ (pc[t] = "cb_write" /\ pc'[t] \in {"cl_stat", "cb_ret"} /\ ~srcExists)
                => (pc'[t] = "cb_ret" /\ ret'[t] # 199)]_vars

\* C10: a cycle on an existing source that holds no file returns at line 165
\* (failure) in its first step and leaves the backup folder's files as they
\* were: no archive is created and nothing is deleted.
C10_EmptySourceFails ==
    [][\A t \in Threads :
          (pc[t] = "cb_check" /\ pc'[t] \in {"cb_write", "cb_ret"}
             /\ srcExists /\ srcCount = 0 /\ faults' = faults)
          => (pc'[t] = "cb_ret" /\ ret'[t] = 165 /\ dest' = dest)]_vars

\* C10's case: a cycle has returned at line 165 on an existing, empty source
C10_Witness ==
    \E t \in Threads : pc[t] = "cb_ret" /\ ret[t] = 165 /\ srcExists /\ srcCount = 0

\* C11: a cycle whose source folder does not exist returns at line 150
\* (failure) in its first step and leaves the destination untouched: the
\* backup folder is not created, no file is written and none is deleted.
C11_MissingSourceLeavesDestination ==
    [][\A t \in Threads :
          (pc[t] = "cb_check" /\ pc'[t] \in {"cb_write", "cb_ret"} /\ ~srcExists)
          => (pc'[t] = "cb_ret" /\ ret'[t] = 150
              /\ destExists' = destExists /\ dest' = dest)]_vars

\* C11's case: a cycle has returned at line 150 and the backup folder, missing
\* before, is still missing
C11_Witness ==
    \E t \in Threads : pc[t] = "cb_ret" /\ ret[t] = 150 /\ ~srcExists /\ ~destExists

\* C12: a failed add does not abort the archive. In a step that writes the
\* archive, every enumerated file still in the save folder is added when no
\* add raises for an outside reason; when one add raises and the archive is
\* closed, all the others are added; and when a file was added and closing
\* does not fail, the cycle goes on to the cleanup, which ends in the return
\* of success at line 199.
C12_FailedAddIsSkipped ==
    [][\A t \in Threads :
          /\ (pc[t] = "cb_write" /\ pc'[t] \in {"cl_stat", "cb_ret"}
                /\ backup_path[t] \in DOMAIN dest)
             => LET added == dest'[backup_path[t]].n
                    readable == Readable(files_to_backup[t])
                IN /\ faults' = faults => added = readable
                   /\ (pc'[t] = "cl_stat" /\ faults' = faults + 1)
                         => added = readable - 1
                   /\ (added >= 1 /\ ret'[t] # 203) => pc'[t] = "cl_stat"
          /\ (pc[t] = "cl_stat" /\ pc'[t] = "cb_ret") => ret'[t] = 199]_vars

\* C12's case: a cycle that enumerated more files than its archive holds,
\* one add having raised for an outside reason, has added a file and has
\* gone on to the cleanup
C12_Witness ==
    \E t \in Threads : \E f \in DOMAIN dest :
        /\ pc[t] = "cl_stat" /\ faults >= 1 /\ srcExists
        /\ srcCount >= files_to_backup[t]
        /\ dest[f].by = CycleId(t)
        /\ dest[f].n >= 1 /\ dest[f].n < files_to_backup[t]

\* C13 as stated: a failed delete neither blocks the other deletions nor
\* fails the cycle: in a cleanup in which one remove raises, every other
\* selected file is removed, the cycle returns success, and the archive
\* this cycle wrote stays in the backup folder.
C13_FailedDeleteAsStated ==
    [][\A t \in Threads :
          (pc[t] = "cl_stat" /\ Returns(t) /\ faults' = faults + 1)
          => LET matching == {f \in listed[t] : MatchesFilter(f, GAME_NAME)}
                 deleted == DOMAIN dest \ DOMAIN dest'
             IN /\ Cardinality(deleted)
                      = Max(0, Cardinality(matching) - max_backups) - 1
                /\ ret'[t] = 199
                /\ \A f \in DOMAIN dest :
                      dest[f].by = CycleId(t) => f \in DOMAIN dest']_vars

\* C13, amended: the same, except that the archive this cycle wrote stays in
\* the backup folder only when it is among the max_backups newest files the
\* cleanup listed: it is removed only when the cleanup itself selects it
\* (always with max_backups = 0).
C13_FailedDeleteIsSkipped ==
    [][\A t \in Threads :
          (pc[t] = "cl_stat" /\ Returns(t) /\ faults' = faults + 1)
          => LET matching == {f \in listed[t] : MatchesFilter(f, GAME_NAME)}
                 deleted == DOMAIN dest \ DOMAIN dest'
             IN /\ Cardinality(deleted)
                      = Max(0, Cardinality(matching) - max_backups) - 1
                /\ ret'[t] = 199
                /\ \A f \in deleted :
                      dest[f].by = CycleId(t)
                      => Cardinality({k \in matching \ {f} :
                                         dest[k].ctime >= dest[f].ctime})
                            >= max_backups]_vars

\* C13's case: a cycle has returned success after a cleanup in which the
\* remove of an older snapshot failed (the snapshot is still there) and a
\* newer one, popped after it, was removed; the cycle's archive is there
C13_Witness ==
    \E t \in Threads : \E i, j \in 1..MaxPre :
        /\ pc[t] = "cb_ret" /\ ret[t] = 199 /\ faults >= 1 /\ max_backups >= 1
        /\ i < j
        /\ PreSnapshot(j) \in DOMAIN dest
        /\ PreSnapshot(i) \notin DOMAIN dest
        /\ \E f \in DOMAIN dest : dest[f].by = CycleId(t)

\* C14: the initial cycle is started once, and no scheduled cycle starts
\* before the initial cycle or while it runs: main starts no cycle after its
\* initial one, and every step in which the scheduler starts a cycle is
\* taken when the initial cycle has completed.
C14_InitialCycleFirst ==
    [][/\ (pc["main"] = "m_loop" => pc'["main"] \in {"m_loop", "exited"})
       /\ (pc["sched"] = "s_sleep" /\ pc'["sched"] = "cb_check")
             => pc["main"] \in {"cb_ret", "m_loop"}]_vars

\* C15: every scheduled trigger comes a full interval after the completion of
\* the previous cycle, whichever source started that cycle: no cycle has
\* completed in the second in which the scheduler starts a cycle.
C15_IntervalFromCompletion ==
    [][(pc["sched"] = "s_sleep" /\ pc'["sched"] = "cb_check") => lastDone < now]_vars

C17_ShutdownWaitsForCycle == killed = {}

\* C18: every archive a cycle of this run has written entries to was written
\* with the configured compress_level clamped to 0..9.
C18_ConfiguredLevelUsed ==
    \A f \in DOMAIN dest :
        (dest[f].by # Earlier /\ dest[f].n >= 1)
        => dest[f].level = Clamp(compress_level)

\* C19: whatever the overlap of cycles, a cleanup in which no remove fails
\* deletes no snapshot of the label that is among the max_backups newest,
\* and when the last running cycle returns from its cleanup, no system call
\* having failed, the backup folder holds at most max_backups snapshots of
\* the label.
C19_RetentionUnderOverlap ==
    [][\A t \in Threads :
          (pc[t] = "cl_stat" /\ Returns(t) /\ faults' = 0)
          => LET before == SnapshotsOf(DOMAIN dest, GAME_NAME)
                 after == SnapshotsOf(DOMAIN dest', GAME_NAME)
             IN /\ \A d \in before \ after :
                      Cardinality({k \in before \ {d} :
                                      dest[k].ctime >= dest[d].ctime}) >= max_backups
                /\ (RunningSet' = {} => Cardinality(after) <= max_backups)]_vars

====
